---- MODULE Spec2Model ----
(***************************************************************************)
(* The transaction-posting workflow of prisma-database: the route handlers *)
(* POST, PUT and DELETE of /api/transacoes and the Prisma calls they make   *)
(* on the tables conta, transacao and transacao_para_categoria.            *)
(*                                                                         *)
(* The repository holds three versions of the handlers:                    *)
(*   versao 3  src/unnamed/part_002                                         *)
(*   versao 2  src/empresa-app/src/app/api/transacoes/route.ts:466-972      *)
(*   versao 1  src/empresa-app/src/app/api/transacoes/route.ts:1-465        *)
(* A behaviour runs one of them (variable versao, fixed by Init).           *)
(*                                                                         *)
(* A handler is a step function on (db, r): db is the database, r the       *)
(* request with its position pc and its local variables.  Every step is    *)
(* one awaited Prisma call together with the local code up to the next one.*)
(* Spec runs whole handlers one after the other (Executa); SpecConc         *)
(* interleaves the steps of two requests.                                   *)
(*                                                                         *)
(* Not modelled: the stored dataTransacao, descricao and criadoEm of a row  *)
(* (no handler reads them back), and the column types of schema.prisma,     *)
(* which is not part of the sources: valor and saldo are numbers.           *)
(* transacao_log is written by the trigger of README.md:116-149, which       *)
(* inserts the DELETE row after the transaction row is gone: the log table   *)
(* holds the transaction id without an enforced foreign key.                 *)
(***************************************************************************)
EXTENDS Integers, Sequences, FiniteSets, TLC

VARIABLES
    versao,     \* which version of the handlers serves the requests
    db,         \* the database: saldo, transacoes, links, logs, categorias
                \* (ids) with their nomes, proximoId, proximaCategoria
    saldo0,     \* the balances the accounts were created with
    ultimo,     \* Spec: the last completed request, with the database before it
    nreq,       \* number of requests answered with 200 or 500 so far
    cenario,    \* Spec: how far the run has followed the scenario of spec 8.6
    apagada,    \* Spec: the row the last request deleted, whether the request
                \* after it created it again, and the balance before the delete
    reqs        \* SpecConc, SpecCat: the requests in flight, one per client

vars == <<versao, db, saldo0, ultimo, nreq, cenario, apagada, reqs>>

----------------------------------------------------------------------------
\* Bounds of the model.

\* requests of one behaviour that are answered with 200 or 500
MaxReq == 3
\* rows ever inserted into transacao (ids 1..MaxTx)
MaxTx == 2

----------------------------------------------------------------------------
\* JavaScript values of a JSON payload: a number, a string or undefined.

JsNum(n) == [t |-> "number", n |-> n, s |-> ""]
JsStr(s) == [t |-> "string", n |-> 0, s |-> s]
JsUndef == [t |-> "undefined", n |-> 0, s |-> ""]

\* ToBoolean: 0 and "" and undefined are falsy
Truthy(x) ==
    CASE x.t = "number" -> x.n # 0
      [] x.t = "string" -> x.s # ""
      [] OTHER -> FALSE

\* the date strings the requests use; the second does not parse
DataBoa == "2024-11-15T18:12:33.655Z"
DataRuim == "amanha"

\* !isNaN(new Date(x).getTime()): a number is a timestamp, a string must
\* parse, new Date(undefined) is an Invalid Date
DataValida(x) ==
    CASE x.t = "number" -> TRUE
      [] x.t = "string" -> x.s = DataBoa
      [] OTHER -> FALSE

Tipos == {"ENTRADA", "SAIDA"}

\* x === "ENTRADA", x === "SAIDA"
EhTipo(x, nome) == x.t = "string" /\ x.s = nome

----------------------------------------------------------------------------
\* The tables.

\* the accounts that exist (conta is never written by these handlers except
\* for its saldo); ContaAusente is an id no account has
Contas == {1, 2}
ContaAusente == 3
\* the categories that exist, and an id no category has
CategoriasIniciais == {1, 2}
CategoriaAusente == 3

\* nome_da_categoria of the categories that exist
NomesIniciais == (1 :> "alimentacao") @@ (2 :> "lazer")

SemTransacao == [id |-> 0, contaId |-> 0, valor |-> 0, tipoDeTransacao |-> ""]

\* a slip: findFirst, which ignores the id when another row is stored
TransacaoFindUnique_findFirst(d, id) ==
    IF d.transacoes # {}
    THEN CHOOSE t \in d.transacoes : \A u \in d.transacoes : t.id <= u.id
    ELSE SemTransacao

\* prisma.transacao.findUnique({ where: { id } })
TransacaoFindUnique(d, id) ==
    IF \E t \in d.transacoes : t.id = id
    THEN CHOOSE t \in d.transacoes : t.id = id
    ELSE SemTransacao

\* a slip: the handler does not test the row findUnique returned
ContaExiste_semTestar(d, id) == TRUE

\* prisma.conta.findUnique({ where: { id } }) finds a row
ContaExiste(d, id) == id \in DOMAIN d.saldo

\* the elements of a sequence
Range(s) == {s[i] : i \in DOMAIN s}

\* no id occurs twice in the sequence
SemRepetidos(s) == \A i, j \in DOMAIN s : s[i] = s[j] => i = j

\* prisma.categoriaDeTransacao.findMany({ where: { id: { in: ids } } }).length
CategoriasExistentes(d, ids) == Cardinality(Range(ids) \cap d.categorias)

----------------------------------------------------------------------------
\* Requests.  r.pc is the next awaited call of the handler, r.status the
\* HTTP status once it answered (0 while in flight), r.chamadas the number
\* of Prisma calls made, r.falha the call that the datastore rejects
\* (0: none), r.antiga the row read by findUnique, r.novoId the id of the
\* row the request inserted, r.pendente the writes of an open $transaction.

\* searchParams.get("id"): absent, not a number, or the decimal form of n
IdAusente == [t |-> "ausente", n |-> 0]
IdTexto == [t |-> "texto", n |-> 0]
IdNumero(n) == [t |-> "numero", n |-> n]

\* a JavaScript number that may be NaN
NaN == [nan |-> TRUE, n |-> 0]
Numero(n) == [nan |-> FALSE, n |-> n]
Soma(a, b) == IF a.nan \/ b.nan THEN NaN ELSE Numero(a.n + b.n)

\* the handler answers with status st
Responde(d, r, st) == [db |-> d, r |-> [r EXCEPT !.pc = "fim", !.status = st]]

\* the awaited call returned; the handler goes on to the call pc
Segue(d, r, pc) == [db |-> d, r |-> [r EXCEPT !.pc = pc, !.chamadas = @ + 1]]

\* the awaited call returned and the handler answers with status st
Termina(d, r, st) ==
    [db |-> d, r |-> [r EXCEPT !.pc = "fim", !.status = st, !.chamadas = @ + 1]]

\* the next Prisma call rejects (datastore unreachable)
Falhou(r) == r.chamadas + 1 = r.falha

----------------------------------------------------------------------------
\* Helpers of the handlers.

\* part_002:4-29 and route.ts:486-505
validarDadosTransacao(dados, isUpdate) ==
    IF isUpdate
    THEN \/ dados.valor.t # "undefined"
         \/ dados.dataTransacao.t # "undefined"
         \/ dados.descricao.t # "undefined"
    ELSE /\ Truthy(dados.contaId)
         /\ dados.contaId.t = "number"
         /\ dados.valor.t # "undefined"
         /\ dados.valor.t = "number"
         /\ Truthy(dados.tipoDeTransacao)
         /\ dados.tipoDeTransacao.t = "string"
         /\ dados.tipoDeTransacao.s \in Tipos
         /\ Truthy(dados.dataTransacao)
         /\ DataValida(dados.dataTransacao)
         /\ Truthy(dados.descricao)
         /\ dados.descricao.t = "string"

\* route.ts:5-27
validarDadosTransacao_v1(dados, isUpdate) ==
    IF isUpdate
    THEN ~(/\ dados.valor.t = "undefined"
           /\ ~Truthy(dados.dataTransacao)
           /\ ~Truthy(dados.descricao))
    ELSE ~(\/ ~Truthy(dados.contaId)
           \/ dados.valor.t = "undefined"
           \/ ~Truthy(dados.tipoDeTransacao)
           \/ ~Truthy(dados.dataTransacao)
           \/ ~Truthy(dados.descricao))

Validar(r, isUpdate) ==
    IF r.v = 1 THEN validarDadosTransacao_v1(r.dados, isUpdate)
    ELSE validarDadosTransacao(r.dados, isUpdate)

\* a slip: data: { saldo: valor }, which overwrites the balance
Incrementa_atribui(d, contaId, valor) ==
    [d EXCEPT !.saldo = [@ EXCEPT ![contaId] = valor]]

\* prisma.conta.update({ where: { id }, data: { saldo: { increment } } })
Incrementa(d, contaId, valor) ==
    [d EXCEPT !.saldo = [@ EXCEPT ![contaId] = @ + valor]]

\* a slip: data: { saldo: saldo + valor } with the saldo the account had
\* when the requests began, a read and a write in place of the increment
ajustarSaldoConta_semIncrement(d, contaId, valor) ==
    [d EXCEPT !.saldo = [@ EXCEPT ![contaId] = ultimo.antes.saldo[contaId] + valor]]

\* ajustarSaldoConta: one atomic increment of the stored saldo
ajustarSaldoConta(d, contaId, valor) == Incrementa(d, contaId, valor)

\* a slip: the check forgets the amount, Number(conta.saldo) >= 0
verificarSaldoConta_semValor(d, contaId, valor) ==
    /\ ContaExiste(d, contaId)
    /\ ~valor.nan
    /\ d.saldo[contaId] >= 0

\* a slip: the check asks for a balance that stays above zero
verificarSaldoConta_estrito(d, contaId, valor) ==
    /\ ContaExiste(d, contaId)
    /\ ~valor.nan
    /\ d.saldo[contaId] + valor.n > 0

\* verificarSaldoConta: Number(conta.saldo) + valor >= 0, false for NaN
verificarSaldoConta(d, contaId, valor) ==
    /\ ContaExiste(d, contaId)
    /\ ~valor.nan
    /\ d.saldo[contaId] + valor.n >= 0

\* a slip: every create credits the account
ajusteSaldo_semSinal(dados) == dados.valor.n

\* POST: tipoDeTransacao === "ENTRADA" ? valor : -valor
ajusteSaldo(dados) ==
    IF EhTipo(dados.tipoDeTransacao, "ENTRADA") THEN dados.valor.n
    ELSE 0 - dados.valor.n

\* a slip: the effect of the stored row is applied again, not reversed
ajusteSaldoAntigo_semInverter(t) ==
    IF t.tipoDeTransacao = "ENTRADA" THEN t.valor ELSE 0 - t.valor

\* PUT, DELETE: the reversal of the stored row,
\* tipoDeTransacao === "ENTRADA" ? -valor : valor
ajusteSaldoAntigo(t) ==
    IF t.tipoDeTransacao = "ENTRADA" THEN 0 - t.valor ELSE t.valor

\* PUT: dados.tipoDeTransacao === "ENTRADA" ? dados.valor : -dados.valor;
\* an absent valor makes the later sum NaN
ajusteSaldoNovo(dados) ==
    IF dados.valor.t # "number" THEN NaN
    ELSE IF EhTipo(dados.tipoDeTransacao, "ENTRADA") THEN Numero(dados.valor.n)
    ELSE Numero(0 - dados.valor.n)

\* prisma.transacao.create accepts the data: the column types and the
\* foreign key to conta
CreateAceita(d, dados) ==
    /\ dados.contaId.t = "number" /\ ContaExiste(d, dados.contaId.n)
    /\ dados.valor.t = "number"
    /\ dados.tipoDeTransacao.t = "string" /\ dados.tipoDeTransacao.s \in Tipos
    /\ DataValida(dados.dataTransacao)
    /\ dados.descricao.t = "string"

\* README.md:116-149: transacao_log_trigger runs log_transacao after every
\* insert, update and delete of a row of transacoes, in the statement that
\* writes the row; it inserts one row (transacao_id, operacao) into
\* transacao_log
log_transacao(d, operacao, id) ==
    [d EXCEPT !.logs = Append(@, [transacaoId |-> id, operacao |-> operacao])]

\* prisma.transacao.create
TransacaoCreate(d, dados) ==
    log_transacao(
        [d EXCEPT !.transacoes = @ \cup {[id |-> d.proximoId,
                                           contaId |-> dados.contaId.n,
                                           valor |-> dados.valor.n,
                                           tipoDeTransacao |-> dados.tipoDeTransacao.s]},
                  !.proximoId = @ + 1],
        "INSERT", d.proximoId)

\* a slip: transacao_para_categoria has no foreign keys
LinksFK_semChaves(d, tid, ids) == TRUE

\* the foreign keys of transacao_para_categoria: the rows (tid, c), c in
\* ids, refer to a stored transaction and to stored categories
LinksFK(d, tid, ids) ==
    /\ Range(ids) \subseteq d.categorias
    /\ Len(ids) > 0 => \E t \in d.transacoes : t.id = tid

\* prisma.transacaoParaCategoria.createMany accepts the rows: the composite
\* key is unique and both foreign keys resolve
LinksAceitos(d, tid, ids) ==
    /\ SemRepetidos(ids)
    /\ \A c \in Range(ids) : <<tid, c>> \notin d.links
    /\ LinksFK(d, tid, ids)

\* a slip: only the first id of the array is linked
LinksCreateMany_soPrimeiro(d, tid, ids) ==
    [d EXCEPT !.links = @ \cup {<<tid, ids[i]>> : i \in DOMAIN ids \cap {1}}]

\* prisma.transacaoParaCategoria.createMany: one statement, all rows or none
LinksCreateMany(d, tid, ids) ==
    [d EXCEPT !.links = @ \cup {<<tid, c>> : c \in Range(ids)}]

\* prisma.transacaoParaCategoria.deleteMany({ where: { transacaoId } })
LinksDeleteMany(d, tid) ==
    [d EXCEPT !.links = {l \in @ : l[1] # tid}]

\* prisma.transacao.delete({ where: { id } })
TransacaoDelete(d, tid) ==
    log_transacao([d EXCEPT !.transacoes = {t \in @ : t.id # tid}], "DELETE", tid)

\* prisma.transacaoLog.deleteMany({ where: { transacaoId } })
LogsDeleteMany(d, tid) ==
    [d EXCEPT !.logs = SelectSeq(@, LAMBDA l : l.transacaoId # tid)]

----------------------------------------------------------------------------
\* POST /api/transacoes

\* a slip: the row is inserted before the balance of a SAIDA is checked
POST_verificaDepois(d, r) ==
    LET dados == r.dados IN
    CASE r.pc = "inicio" ->
           IF ~validarDadosTransacao(dados, FALSE) THEN Responde(d, r, 400)
           ELSE IF ~ContaExiste(d, dados.contaId.n) THEN Termina(d, r, 400)
           ELSE Segue(d, r, "create")
      [] r.pc = "create" ->
           IF ~CreateAceita(d, dados) THEN Responde(d, r, 500)
           ELSE Segue(TransacaoCreate(d, dados),
                      [r EXCEPT !.novoId = d.proximoId],
                      IF EhTipo(dados.tipoDeTransacao, "SAIDA")
                      THEN "verificarSaldo" ELSE "ajustar")
      [] r.pc = "verificarSaldo" ->
           IF ~verificarSaldoConta(d, dados.contaId.n, Numero(0 - dados.valor.n))
           THEN Termina(d, r, 400)
           ELSE Segue(d, r, "ajustar")
      [] r.pc = "ajustar" ->
           Termina(ajustarSaldoConta(d, dados.contaId.n, ajusteSaldo(dados)), r, 200)

\* part_002:210-284
POST(d, r) ==
    LET dados == r.dados
        temCategorias == dados.temCategorias
    IN
    CASE r.pc = "inicio" ->
           IF ~validarDadosTransacao(dados, FALSE) THEN Responde(d, r, 400)
           ELSE IF Falhou(r) THEN Responde(d, r, 500)
           ELSE IF ~ContaExiste(d, dados.contaId.n) THEN Termina(d, r, 400)
           ELSE IF EhTipo(dados.tipoDeTransacao, "SAIDA")
                THEN Segue(d, r, "verificarSaldo")
           ELSE Segue(d, r, IF temCategorias THEN "findMany" ELSE "create")
      [] r.pc = "verificarSaldo" ->
           IF Falhou(r) THEN Responde(d, r, 500)
           ELSE IF ~verificarSaldoConta(d, dados.contaId.n, Numero(0 - dados.valor.n))
                THEN Termina(d, r, 400)
           ELSE Segue(d, r, IF temCategorias THEN "findMany" ELSE "create")
      [] r.pc = "findMany" ->
           IF Falhou(r) THEN Responde(d, r, 500)
           ELSE IF CategoriasExistentes(d, dados.categorias) # Len(dados.categorias)
                THEN Termina(d, r, 400)
           ELSE Segue(d, r, "create")
      [] r.pc = "create" ->
           IF Falhou(r) \/ ~CreateAceita(d, dados) THEN Responde(d, r, 500)
           ELSE Segue(TransacaoCreate(d, dados),
                      [r EXCEPT !.novoId = d.proximoId],
                      IF temCategorias THEN "createMany" ELSE "ajustar")
      [] r.pc = "createMany" ->
           IF Falhou(r) \/ ~LinksAceitos(d, r.novoId, dados.categorias)
           THEN Responde(d, r, 500)
           ELSE Segue(LinksCreateMany(d, r.novoId, dados.categorias), r, "ajustar")
      [] r.pc = "ajustar" ->
           IF Falhou(r) THEN Responde(d, r, 500)
           ELSE Termina(ajustarSaldoConta(d, dados.contaId.n, ajusteSaldo(dados)), r, 200)

\* Promise.all(categorias.map(id => prisma.transacaoParaCategoria.create)):
\* every create runs on its own, so the rows that are accepted are inserted
\* also when another create rejects
LinksCreateCadaUm(d, tid, ids) ==
    [d EXCEPT !.links = @ \cup {<<tid, c>> : c \in {x \in Range(ids) : LinksFK(d, tid, <<x>>)}}]

\* route.ts:673-738
POST_v2(d, r) ==
    LET dados == r.dados
        temCategorias == dados.temCategorias
    IN
    CASE r.pc = "inicio" ->
           IF ~validarDadosTransacao(dados, FALSE) THEN Responde(d, r, 400)
           ELSE IF Falhou(r) THEN Responde(d, r, 500)
           ELSE IF ~ContaExiste(d, dados.contaId.n) THEN Termina(d, r, 400)
           ELSE IF EhTipo(dados.tipoDeTransacao, "SAIDA")
                THEN Segue(d, r, "verificarSaldo")
           ELSE Segue(d, r, "create")
      [] r.pc = "verificarSaldo" ->
           IF Falhou(r) THEN Responde(d, r, 500)
           ELSE IF ~verificarSaldoConta(d, dados.contaId.n, Numero(0 - dados.valor.n))
                THEN Termina(d, r, 400)
           ELSE Segue(d, r, "create")
      [] r.pc = "create" ->
           IF Falhou(r) \/ ~CreateAceita(d, dados) THEN Responde(d, r, 500)
           ELSE Segue(TransacaoCreate(d, dados),
                      [r EXCEPT !.novoId = d.proximoId],
                      IF temCategorias THEN "createMany" ELSE "ajustar")
      [] r.pc = "createMany" ->
           IF Falhou(r) THEN Responde(d, r, 500)
           ELSE IF ~LinksAceitos(d, r.novoId, dados.categorias)
                THEN Responde(LinksCreateCadaUm(d, r.novoId, dados.categorias), r, 500)
           ELSE Segue(LinksCreateCadaUm(d, r.novoId, dados.categorias), r, "ajustar")
      [] r.pc = "ajustar" ->
           IF Falhou(r) THEN Responde(d, r, 500)
           ELSE Termina(ajustarSaldoConta(d, dados.contaId.n, ajusteSaldo(dados)), r, 200)

\* route.ts:181-223: no balance check, no links, no balance adjustment
POST_v1(d, r) ==
    LET dados == r.dados IN
    CASE r.pc = "inicio" ->
           IF ~validarDadosTransacao_v1(dados, FALSE) THEN Responde(d, r, 400)
           ELSE IF Falhou(r) \/ dados.contaId.t # "number" THEN Responde(d, r, 500)
           ELSE IF ~ContaExiste(d, dados.contaId.n) THEN Termina(d, r, 400)
           ELSE Segue(d, r, "create")
      [] r.pc = "create" ->
           IF Falhou(r) \/ ~CreateAceita(d, dados) THEN Responde(d, r, 500)
           ELSE Termina(TransacaoCreate(d, dados), [r EXCEPT !.novoId = d.proximoId], 200)

----------------------------------------------------------------------------
\* PUT /api/transacoes?id=

\* prisma.transacao.update accepts the call: the row exists, new
\* Date(dados.dataTransacao) is a valid date and every field that is given
\* has the type of its column (undefined fields are left as they are).
\* comTudo: the data is the whole payload ({ ...dados }, route.ts:369), so a
\* contaId must name an account and categorias is no column
UpdateAceita(d, id, dados, comTudo) ==
    /\ \E t \in d.transacoes : t.id = id
    /\ DataValida(dados.dataTransacao)
    /\ dados.valor.t \in {"undefined", "number"}
    /\ \/ dados.tipoDeTransacao.t = "undefined"
       \/ dados.tipoDeTransacao.t = "string" /\ dados.tipoDeTransacao.s \in Tipos
    /\ dados.descricao.t \in {"undefined", "string"}
    /\ comTudo =>
         /\ ~dados.temCategorias
         /\ \/ dados.contaId.t = "undefined"
            \/ dados.contaId.t = "number" /\ ContaExiste(d, dados.contaId.n)
    
\* prisma.transacao.update: writes the fields that are given
TransacaoUpdate(d, id, dados, comTudo) ==
    LET nova(t) ==
          [id |-> t.id,
           contaId |-> IF comTudo /\ dados.contaId.t = "number"
                       THEN dados.contaId.n ELSE t.contaId,
           valor |-> IF dados.valor.t = "number" THEN dados.valor.n ELSE t.valor,
           tipoDeTransacao |-> IF dados.tipoDeTransacao.t = "string"
                               THEN dados.tipoDeTransacao.s ELSE t.tipoDeTransacao]
    IN log_transacao([d EXCEPT !.transacoes = {IF t.id = id THEN nova(t) ELSE t : t \in @}],
                     "UPDATE", id)

\* the first lines of the three PUT handlers: the id, the payload and the
\* stored row.  idNumerico: the handler rejects an id that is no number
\* (route.ts:797); otherwise Number(id) is NaN and findUnique rejects
PutInicio(d, r, idNumerico, comSaldo) ==
    IF r.id.t = "ausente" \/ (idNumerico /\ r.id.t = "texto") THEN Responde(d, r, 400)
    ELSE IF ~Validar(r, TRUE) THEN Responde(d, r, 400)
    ELSE IF Falhou(r) \/ r.id.t = "texto" THEN Responde(d, r, 500)
    ELSE IF TransacaoFindUnique(d, r.id.n) = SemTransacao THEN Termina(d, r, 404)
    ELSE Segue(d, [r EXCEPT !.antiga = TransacaoFindUnique(d, r.id.n)],
               IF comSaldo /\ EhTipo(r.dados.tipoDeTransacao, "SAIDA")
               THEN "verificarSaldo" ELSE "update")

\* the last call of the three PUT handlers:
\* ajustarSaldoConta(transacaoAntiga.contaId, ajusteSaldoAntigo + ajusteSaldoNovo);
\* Prisma rejects an increment that is NaN
PutAjustar(d, r) ==
    LET ajuste == Soma(Numero(ajusteSaldoAntigo(r.antiga)), ajusteSaldoNovo(r.dados)) IN
    IF Falhou(r) \/ ajuste.nan THEN Responde(d, r, 500)
    ELSE Termina(ajustarSaldoConta(d, r.antiga.contaId, ajuste.n), r, 200)

\* part_002:336-426
PUT(d, r) ==
    LET dados == r.dados IN
    CASE r.pc = "inicio" -> PutInicio(d, r, FALSE, TRUE)
      [] r.pc = "verificarSaldo" ->
           IF Falhou(r) THEN Responde(d, r, 500)
           ELSE IF ~verificarSaldoConta(d, r.antiga.contaId, ajusteSaldoNovo(dados))
                THEN Termina(d, r, 400)
           ELSE Segue(d, r, "update")
      [] r.pc = "update" ->
           IF Falhou(r) \/ ~UpdateAceita(d, r.id.n, dados, FALSE)
           THEN Responde(d, r, 500)
           ELSE IF dados.temCategorias /\ Len(dados.categorias) > 0
                \* dados.novaTransacao is undefined: the map callback throws
                THEN Termina(TransacaoUpdate(d, r.id.n, dados, FALSE), r, 500)
           ELSE Segue(TransacaoUpdate(d, r.id.n, dados, FALSE), r,
                      IF dados.temCategorias THEN "createMany" ELSE "ajustar")
      [] r.pc = "createMany" ->
           \* createMany({ data: [] })
           IF Falhou(r) THEN Responde(d, r, 500)
           ELSE Segue(d, r, "ajustar")
      [] r.pc = "ajustar" -> PutAjustar(d, r)

\* route.ts:791-885
PUT_v2(d, r) ==
    LET dados == r.dados IN
    CASE r.pc = "inicio" -> PutInicio(d, r, TRUE, TRUE)
      [] r.pc = "verificarSaldo" ->
           IF Falhou(r) THEN Responde(d, r, 500)
           ELSE IF ~verificarSaldoConta(d, r.antiga.contaId, ajusteSaldoNovo(dados))
                THEN Termina(d, r, 400)
           ELSE Segue(d, r, "update")
      [] r.pc = "update" ->
           IF Falhou(r) \/ ~UpdateAceita(d, r.id.n, dados, FALSE)
           THEN Responde(d, r, 500)
           ELSE Segue(TransacaoUpdate(d, r.id.n, dados, FALSE), r,
                      IF dados.temCategorias THEN "deleteMany" ELSE "ajustar")
      [] r.pc = "deleteMany" ->
           IF Falhou(r) THEN Responde(d, r, 500)
           ELSE Segue(LinksDeleteMany(d, r.id.n), r, "createMany")
      [] r.pc = "createMany" ->
           IF Falhou(r) \/ ~LinksAceitos(d, r.id.n, dados.categorias)
           THEN Responde(d, r, 500)
           ELSE Segue(LinksCreateMany(d, r.id.n, dados.categorias), r, "ajustar")
      [] r.pc = "ajustar" -> PutAjustar(d, r)

\* route.ts:339-383
PUT_v1(d, r) ==
    LET dados == r.dados IN
    CASE r.pc = "inicio" -> PutInicio(d, r, FALSE, FALSE)
      [] r.pc = "update" ->
           IF Falhou(r) \/ ~UpdateAceita(d, r.id.n, dados, TRUE)
           THEN Responde(d, r, 500)
           ELSE Segue(TransacaoUpdate(d, r.id.n, dados, TRUE), r, "ajustar")
      [] r.pc = "ajustar" -> PutAjustar(d, r)

----------------------------------------------------------------------------
\* DELETE /api/transacoes?id=

\* the first lines of the three DELETE handlers
DeleteInicio(d, r, depois) ==
    IF r.id.t # "numero" THEN Responde(d, r, 400)
    ELSE IF Falhou(r) THEN Responde(d, r, 500)
    ELSE IF TransacaoFindUnique(d, r.id.n) = SemTransacao THEN Termina(d, r, 404)
    ELSE Segue(d, [r EXCEPT !.antiga = TransacaoFindUnique(d, r.id.n)], depois)

\* a slip: deleteMany({ where: { id } }), which accepts a row that is gone
DeleteAceita_semLinha(d, id) == \A l \in d.links : l[1] # id

\* prisma.transacao.delete accepts the call: the row exists and no row of
\* transacao_para_categoria refers to it
DeleteAceita(d, id) ==
    /\ \E t \in d.transacoes : t.id = id
    /\ \A l \in d.links : l[1] # id

\* part_002:453-518
DELETE(d, r) ==
    CASE r.pc = "inicio" -> DeleteInicio(d, r, "deleteMany")
      [] r.pc = "deleteMany" ->
           IF Falhou(r) THEN Responde(d, r, 500)
           ELSE Segue(LinksDeleteMany(d, r.id.n), r, "delete")
      [] r.pc = "delete" ->
           IF Falhou(r) \/ ~DeleteAceita(d, r.id.n) THEN Responde(d, r, 500)
           ELSE Segue(TransacaoDelete(d, r.id.n), r, "ajustar")
      [] r.pc = "ajustar" ->
           IF Falhou(r) THEN Responde(d, r, 500)
           ELSE Termina(Incrementa(d, r.antiga.contaId, ajusteSaldoAntigo(r.antiga)),
                        r, 200)

\* route.ts:912-972.  deleteMany and delete run on the client of the
\* $transaction: they are pending (r.pendente) until the callback returns
\* and the transaction commits.  ajustarSaldoConta uses the client of the
\* module (route.ts:470-475), which is not part of the transaction: its
\* increment is written at once
DELETE_v2(d, r) ==
    CASE r.pc = "inicio" -> DeleteInicio(d, r, "deleteMany")
      [] r.pc = "deleteMany" ->
           IF Falhou(r) THEN Responde(d, r, 500)
           ELSE Segue(d, [r EXCEPT !.pendente = {"links"}], "delete")
      [] r.pc = "delete" ->
           IF Falhou(r) \/ ~(\E t \in d.transacoes : t.id = r.id.n)
           THEN Responde(d, [r EXCEPT !.pendente = {}], 500)
           ELSE Segue(d, [r EXCEPT !.pendente = {"links", "transacao"}], "ajustar")
      [] r.pc = "ajustar" ->
           IF Falhou(r) THEN Responde(d, [r EXCEPT !.pendente = {}], 500)
           ELSE Segue(ajustarSaldoConta(d, r.antiga.contaId,
                                        ajusteSaldoAntigo(r.antiga)), r, "commit")
      [] r.pc = "commit" ->
           IF Falhou(r) THEN Responde(d, [r EXCEPT !.pendente = {}], 500)
           ELSE Termina(TransacaoDelete(LinksDeleteMany(d, r.id.n), r.id.n),
                        [r EXCEPT !.pendente = {}], 200)

\* route.ts:414-465.  transacaoLog.deleteMany removes the audit rows of the
\* transaction before the row is deleted
DELETE_v1(d, r) ==
    CASE r.pc = "inicio" -> DeleteInicio(d, r, "deleteLogs")
      [] r.pc = "deleteLogs" ->
           IF Falhou(r) THEN Responde(d, r, 500)
           ELSE Segue(LogsDeleteMany(d, r.id.n), r, "delete")
      [] r.pc = "delete" ->
           IF Falhou(r) \/ ~DeleteAceita(d, r.id.n) THEN Responde(d, r, 500)
           ELSE Segue(TransacaoDelete(d, r.id.n), r, "ajustar")
      [] r.pc = "ajustar" ->
           IF Falhou(r) THEN Responde(d, r, 500)
           ELSE Termina(ajustarSaldoConta(d, r.antiga.contaId,
                                          ajusteSaldoAntigo(r.antiga)), r, 200)

----------------------------------------------------------------------------
\* GET /api/transacoes?tipoDeTransacao=&contaId=

\* the query parameters: tipoDeTransacao ("" when absent) and contaId
SemFiltros == [tipoDeTransacao |-> "", contaId |-> IdAusente]

\* where: filtros.  An absent or empty tipoDeTransacao is no filter; contaId
\* is a filter when parseInt gives a number (part_002:141-146)
Filtrada(t, filtros) ==
    /\ filtros.tipoDeTransacao # "" => t.tipoDeTransacao = filtros.tipoDeTransacao
    /\ filtros.contaId.t = "numero" => t.contaId = filtros.contaId.n

\* include: { categorias: { include: { categoria: true } } }: the row with
\* the link rows that refer to it
ComCategorias(d, t) ==
    [id |-> t.id, contaId |-> t.contaId, valor |-> t.valor,
     tipoDeTransacao |-> t.tipoDeTransacao,
     categorias |-> {l \in d.links : l[1] = t.id}]

\* orderBy: { id: "asc" }
RECURSIVE OrdenaPorId(_)
OrdenaPorId(ts) ==
    IF ts = {} THEN << >>
    ELSE LET t == CHOOSE x \in ts : \A y \in ts : x.id <= y.id
         IN <<t>> \o OrdenaPorId(ts \ {t})

\* prisma.transacao.findMany({ where, include, orderBy })
TransacaoFindMany(d, filtros) ==
    OrdenaPorId({ComCategorias(d, t) : t \in {x \in d.transacoes : Filtrada(x, filtros)}})

\* part_002:129-169 and route.ts:590-630: the answer of the listing
GET(d, filtros) == [status |-> 200, corpo |-> TransacaoFindMany(d, filtros)]

----------------------------------------------------------------------------
\* One step of a request, and a request run to its answer.

Passo(d, r) ==
    CASE r.op = "POST" /\ r.v = 3 -> POST(d, r)
      [] r.op = "POST" /\ r.v = 2 -> POST_v2(d, r)
      [] r.op = "POST" /\ r.v = 1 -> POST_v1(d, r)
      [] r.op = "PUT" /\ r.v = 3 -> PUT(d, r)
      [] r.op = "PUT" /\ r.v = 2 -> PUT_v2(d, r)
      [] r.op = "PUT" /\ r.v = 1 -> PUT_v1(d, r)
      [] r.op = "DELETE" /\ r.v = 3 -> DELETE(d, r)
      [] r.op = "DELETE" /\ r.v = 2 -> DELETE_v2(d, r)
      [] r.op = "DELETE" /\ r.v = 1 -> DELETE_v1(d, r)

RECURSIVE Executa(_, _)
Executa(d, r) ==
    IF r.pc = "fim" THEN [db |-> d, r |-> r]
    ELSE LET p == Passo(d, r) IN Executa(p.db, p.r)

----------------------------------------------------------------------------
\* The requests the clients send.

Dados(contaId, valor, tipo, data, descricao, temCategorias, categorias) ==
    [contaId |-> contaId, valor |-> valor, tipoDeTransacao |-> tipo,
     dataTransacao |-> data, descricao |-> descricao,
     temCategorias |-> temCategorias, categorias |-> categorias]

\* the amounts of the requests
Valores == {600, 1500}

\* the categorias arrays of the requests: in both orders, with a category
\* that does not exist, and with a repeated id
Listas == {<< >>, <<1>>, <<1, 2>>, <<2, 1>>, <<CategoriaAusente>>, <<1, 1>>}

\* a complete create payload without categorias
DadosSimples(contaId, valor, tipo) ==
    Dados(JsNum(contaId), JsNum(valor), JsStr(tipo), JsStr(DataBoa),
          JsStr("compra"), FALSE, << >>)

\* a request: the id parameter, the payload and the call the datastore
\* rejects (0: none)
Pedido(id, dados, falha) == [id |-> id, dados |-> dados, falha |-> falha]

\* a create payload with a categorias array
DadosComLista(tipo, lista) ==
    Dados(JsNum(1), JsNum(600), JsStr(tipo), JsStr(DataBoa), JsStr("compra"), TRUE, lista)

\* create payloads that pass validarDadosTransacao: both kinds and amounts
\* on account 1, account 2, an account that does not exist, the categorias
\* arrays, and amounts that are not positive
DadosPostValidos ==
    {DadosSimples(1, v, t) : v \in Valores, t \in Tipos}
    \cup {DadosSimples(2, 600, t) : t \in Tipos}
    \cup {DadosSimples(ContaAusente, 600, "ENTRADA")}
    \cup {DadosComLista("ENTRADA", l) : l \in Listas}
    \cup {DadosSimples(1, 0 - 600, "SAIDA"), DadosSimples(1, 0, "ENTRADA")}

\* create payloads with one field missing or of the wrong kind
DadosPostInvalidos ==
    LET b == DadosSimples(1, 600, "ENTRADA") IN
    {[b EXCEPT !.contaId = x] : x \in {JsUndef, JsStr("1")}}
    \cup {[b EXCEPT !.valor = x] : x \in {JsUndef, JsStr("600")}}
    \cup {[b EXCEPT !.tipoDeTransacao = x] : x \in {JsUndef, JsStr("OUTRO")}}
    \cup {[b EXCEPT !.dataTransacao = x] : x \in {JsUndef, JsStr(DataRuim)}}
    \cup {[b EXCEPT !.descricao = x] : x \in {JsUndef, JsStr("")}}

\* the calls of one request that the datastore may reject; no handler
\* makes more than six
Falhas == 1..6

PedidosPost ==
    {Pedido(IdAusente, d, 0) :
        d \in DadosPostValidos \cup DadosPostInvalidos
              \cup {DadosComLista("SAIDA", <<1, 2>>)}}

\* create requests of which the datastore rejects one call
PedidosPostFalha ==
    {Pedido(IdAusente, DadosComLista("SAIDA", <<1, 2>>), f) : f \in Falhas}

\* an update payload
DadosUpdate(valor, tipo, data) == Dados(JsUndef, valor, tipo, data, JsUndef, FALSE, << >>)

\* an update payload with a categorias array
DadosUpdateComLista(tipo, lista) ==
    Dados(JsUndef, JsNum(600), JsStr(tipo), JsStr(DataBoa), JsStr("troca"), TRUE, lista)

\* update payloads: valor and tipoDeTransacao given or not, dataTransacao
\* missing, nothing given, a categorias array, and (read by route.ts:369
\* only) a contaId
DadosPut ==
    {DadosUpdate(v, t, JsStr(DataBoa)) :
        v \in {JsNum(x) : x \in Valores} \cup {JsUndef},
        t \in {JsStr(x) : x \in Tipos} \cup {JsUndef}}
    \cup {DadosUpdate(JsNum(600), JsStr("ENTRADA"), JsUndef),
          DadosUpdate(JsUndef, JsUndef, JsUndef)}
    \cup {DadosUpdateComLista("ENTRADA", l) : l \in {<< >>, <<2>>, <<CategoriaAusente>>}}
    \cup {[DadosUpdate(JsNum(600), JsStr("ENTRADA"), JsStr(DataBoa))
             EXCEPT !.contaId = JsNum(2)]}

PedidosPut ==
    {Pedido(IdNumero(1), d, 0) : d \in DadosPut}
    \cup {Pedido(IdNumero(2), DadosUpdate(JsNum(v), JsStr("SAIDA"), JsStr(DataBoa)), 0) :
             v \in Valores}
    \cup {Pedido(id, DadosUpdate(JsNum(600), JsStr("SAIDA"), JsStr(DataBoa)), 0) :
             id \in {IdNumero(MaxTx + 1), IdAusente, IdTexto}}
    \cup {Pedido(IdNumero(1), DadosUpdateComLista("SAIDA", <<2>>), 0)}

\* update requests of which the datastore rejects one call
PedidosPutFalha ==
    {Pedido(IdNumero(1), DadosUpdateComLista("SAIDA", l), f) :
        l \in {<< >>, <<2>>}, f \in Falhas}

PedidosDelete ==
    {Pedido(id, DadosSimples(0, 0, ""), 0) :
        id \in {IdNumero(n) : n \in 1..(MaxTx + 1)} \cup {IdAusente, IdTexto}}

\* delete requests of which the datastore rejects one call
PedidosDeleteFalha ==
    {Pedido(IdNumero(1), DadosSimples(0, 0, ""), f) : f \in Falhas}

Versoes == {1, 2, 3}

NovoReq(op, v, id, dados, falha) ==
    [op |-> op, v |-> v, id |-> id, dados |-> dados, pc |-> "inicio",
     status |-> 0, chamadas |-> 0, falha |-> falha,
     antiga |-> SemTransacao, novoId |-> 0, pendente |-> {}]

\* no request: the slot of a client that has sent nothing
SemReq ==
    [NovoReq("", 0, IdAusente, DadosSimples(0, 0, ""), 0) EXCEPT !.pc = "fim"]

\* the request made the call that the datastore rejects, if there is one
FalhaOcorreu(r) == r.falha = 0 \/ (r.status = 500 /\ r.chamadas + 1 = r.falha)

----------------------------------------------------------------------------
\* Spec: the requests are served one after the other.

\* no row was deleted by the last request
NadaApagado ==
    [t |-> SemTransacao, saldo |-> 0, comLinks |-> FALSE, recriada |-> FALSE]

\* the create r repeats the account, kind and amount of the row t
Repete(r, t) ==
    /\ r.op = "POST"
    /\ r.dados.contaId = JsNum(t.contaId)
    /\ r.dados.tipoDeTransacao = JsStr(t.tipoDeTransacao)
    /\ r.dados.valor = JsNum(t.valor)

\* apagada after the request r, answered as fim, was served on the database d
Apagada(d, r, fim) ==
    IF r.op = "DELETE" /\ fim.status = 200
    THEN [t |-> TransacaoFindUnique(d, r.id.n),
          saldo |-> d.saldo[TransacaoFindUnique(d, r.id.n).contaId],
          comLinks |-> \E l \in d.links : l[1] = r.id.n,
          recriada |-> FALSE]
    ELSE IF /\ apagada.t # SemTransacao /\ ~apagada.recriada
            /\ fim.status = 200 /\ Repete(r, apagada.t)
    THEN [apagada EXCEPT !.recriada = TRUE]
    ELSE NadaApagado

\* account 1 is created with a balance of 1000 (spec 8.6), account 2 empty
SaldosIniciais == (1 :> 1000) @@ (2 :> 0)

BancoVazio(s) ==
    [saldo |-> s, transacoes |-> {}, links |-> {}, logs |-> << >>,
     categorias |-> CategoriasIniciais, nomes |-> NomesIniciais,
     proximaCategoria |-> CategoriaAusente + 1, proximoId |-> 1]

InitComum ==
    /\ saldo0 = SaldosIniciais
    /\ db = BancoVazio(saldo0)
    /\ ultimo = [r |-> SemReq, antes |-> db]
    /\ nreq = 0
    /\ cenario = 0
    /\ apagada = NadaApagado
    /\ reqs = [c \in {1, 2} |-> SemReq]

\* The scenario of spec 8.6 on account 1: POST SAIDA 1500, POST ENTRADA 600,
\* POST SAIDA 1500, DELETE of the last created row, from a balance of 1000
\* and with no call rejected.  cenario counts the steps followed so far and
\* is -1 once the run has left the scenario.
NoCenario(k, r, ult) ==
    /\ r.falha = 0
    /\ saldo0[1] = 1000
    /\ CASE k = 1 -> r.op = "POST" /\ r.dados = DadosSimples(1, 1500, "SAIDA")
         [] k = 2 -> r.op = "POST" /\ r.dados = DadosSimples(1, 600, "ENTRADA")
         [] k = 3 -> r.op = "POST" /\ r.dados = DadosSimples(1, 1500, "SAIDA")
         [] k = 4 -> r.op = "DELETE" /\ r.id = IdNumero(ult.r.novoId)
         [] OTHER -> FALSE

\* the request r is served to its answer
Serve(r) ==
    /\ nreq < MaxReq
    /\ \E fim \in {Executa(db, r)} :
          /\ FalhaOcorreu(fim.r)
          /\ db' = fim.db
          /\ ultimo' = [r |-> fim.r, antes |-> db]
          /\ nreq' = IF fim.r.status \in {400, 404} THEN nreq ELSE nreq + 1
          /\ cenario' = IF cenario >= 0 /\ NoCenario(cenario + 1, r, ultimo)
                        THEN cenario + 1 ELSE 0 - 1
          /\ apagada' = Apagada(db, r, fim.r)
          /\ UNCHANGED <<versao, saldo0, reqs>>

Post ==
    /\ db.proximoId <= MaxTx
    /\ \E p \in PedidosPost :
          Serve(NovoReq("POST", versao, p.id, p.dados, p.falha))

Put ==
    \E p \in PedidosPut : Serve(NovoReq("PUT", versao, p.id, p.dados, p.falha))

Delete ==
    \E p \in PedidosDelete : Serve(NovoReq("DELETE", versao, p.id, p.dados, p.falha))

Next == Post \/ Put \/ Delete

\* the handlers of part_002, no call rejected by the datastore
Init == versao = 3 /\ InitComum

Spec == Init /\ [][Next]_vars

\* the handlers of each of the three versions
InitVersoes == versao \in Versoes /\ InitComum

SpecVersoes == InitVersoes /\ [][Next]_vars

\* the handlers that validate the payload and keep the audit log: the second
\* definitions of route.ts (466-972) and those of part_002
InitV23 == versao \in {2, 3} /\ InitComum

SpecV23 == InitV23 /\ [][Next]_vars

----------------------------------------------------------------------------
\* SpecFalhas: as SpecVersoes, and the datastore may reject a call.

PostFalha ==
    /\ db.proximoId <= MaxTx
    /\ \E p \in PedidosPostFalha :
          Serve(NovoReq("POST", versao, p.id, p.dados, p.falha))

PutFalha ==
    \E p \in PedidosPutFalha : Serve(NovoReq("PUT", versao, p.id, p.dados, p.falha))

DeleteFalha ==
    \E p \in PedidosDeleteFalha :
        Serve(NovoReq("DELETE", versao, p.id, p.dados, p.falha))

NextFalhas == Post \/ Put \/ Delete \/ PostFalha \/ PutFalha \/ DeleteFalha

SpecFalhas == InitVersoes /\ [][NextFalhas]_vars

----------------------------------------------------------------------------
\* SpecConc: two clients; the awaited calls of their requests interleave.

Clientes == {1, 2}

\* requests of one behaviour of SpecConc
MaxConc == 2

\* a database with one transaction, as POST leaves it after a create of
\* ENTRADA 600 with category 1 on account 1
BancoComUma ==
    [saldo |-> (1 :> 1600) @@ (2 :> 0),
     transacoes |-> {[id |-> 1, contaId |-> 1, valor |-> 600,
                      tipoDeTransacao |-> "ENTRADA"]},
     links |-> {<<1, 1>>},
     logs |-> <<[transacaoId |-> 1, operacao |-> "INSERT"]>>,
     categorias |-> CategoriasIniciais, nomes |-> NomesIniciais,
     proximaCategoria |-> CategoriaAusente + 1, proximoId |-> 2]

\* the same transaction as the POST of route.ts:181-223 leaves it: no link
\* and the balance not adjusted
BancoComUmaV1 == [BancoComUma EXCEPT !.saldo = SaldosIniciais, !.links = {}]

InitConc ==
    /\ versao \in Versoes
    /\ saldo0 = SaldosIniciais
    /\ db \in {BancoVazio(saldo0), IF versao = 1 THEN BancoComUmaV1 ELSE BancoComUma}
    /\ ultimo = [r |-> SemReq, antes |-> db]
    /\ nreq = 0
    /\ cenario = 0
    /\ apagada = NadaApagado
    /\ reqs = [c \in Clientes |-> SemReq]

\* the requests of the two clients
PedidosConc ==
    {[op |-> "POST", p |-> Pedido(IdAusente, DadosSimples(1, 600, t), 0)] : t \in Tipos}
    \cup {[op |-> "PUT",
           p |-> Pedido(IdNumero(1), DadosUpdate(JsNum(v), JsStr(t), JsStr(DataBoa)), 0)] :
             v \in Valores, t \in Tipos}
    \cup {[op |-> "DELETE", p |-> Pedido(IdNumero(1), DadosSimples(0, 0, ""), 0)]}

\* client c sends a request
Inicia(c) ==
    /\ reqs[c].pc = "fim"
    /\ nreq < MaxConc
    /\ \E q \in PedidosConc :
          reqs' = [reqs EXCEPT ![c] = NovoReq(q.op, versao, q.p.id, q.p.dados, q.p.falha)]
    /\ nreq' = nreq + 1
    /\ UNCHANGED <<versao, db, saldo0, ultimo, cenario, apagada>>

\* The rows an open $transaction has deleted stay locked until it commits
\* or rolls back: a call of the request of client c that writes the same
\* transaction row, a link row of it, or a link row that refers to it does
\* not return before that.
Bloqueada(c) ==
    \E e \in Clientes \ {c} :
        /\ reqs[e].id = reqs[c].id
        /\ \/ /\ "transacao" \in reqs[e].pendente
              /\ reqs[c].pc \in {"update", "delete", "createMany"}
           \/ /\ "links" \in reqs[e].pendente
              /\ LinksDeleteMany(db, reqs[c].id.n) # db
              /\ reqs[c].pc = "deleteMany"

\* the next awaited call of the request of client c returns
Avanca(c) ==
    /\ reqs[c].pc # "fim"
    /\ ~Bloqueada(c)
    /\ LET p == Passo(db, reqs[c]) IN
         /\ db' = p.db
         /\ reqs' = [reqs EXCEPT ![c] = p.r]
    /\ UNCHANGED <<versao, saldo0, ultimo, nreq, cenario, apagada>>

NextConc == \E c \in Clientes : Inicia(c) \/ Avanca(c)

SpecConc == InitConc /\ [][NextConc]_vars

----------------------------------------------------------------------------
\* /api/categorias (categorias/route.ts).  SpecCat: two clients send create
\* and rename requests, the steps of the handlers interleaved.

\* requests started in one behaviour of SpecCat
MaxCat == 3

\* prisma.categoriaDeTransacao.findUnique({ where: { nome_da_categoria } }):
\* the id of the category with the name, 0 when there is none
CategoriaFindUnique(d, nome) ==
    IF \E c \in d.categorias : d.nomes[c] = nome
    THEN CHOOSE c \in d.categorias : d.nomes[c] = nome
    ELSE 0

\* a slip: the column nome_da_categoria has no unique index
NomeLivre_semIndice(d, nome, id) == TRUE

\* the unique index on nome_da_categoria, which findUnique by name relies
\* on, accepts the name for the row id (0: a new row)
NomeLivre(d, nome, id) == \A c \in d.categorias \ {id} : d.nomes[c] # nome

\* prisma.categoriaDeTransacao.create
CategoriaCreate(d, nome) ==
    [d EXCEPT !.categorias = @ \cup {d.proximaCategoria},
              !.nomes = @ @@ (d.proximaCategoria :> nome),
              !.proximaCategoria = @ + 1]

\* prisma.categoriaDeTransacao.update({ where: { id }, data: { nome_da_categoria } })
CategoriaUpdate(d, id, nome) == [d EXCEPT !.nomes = [@ EXCEPT ![id] = nome]]

\* categorias/route.ts:37-73
CategoriaPOST(d, r) ==
    CASE r.pc = "inicio" ->
           IF ~Truthy(r.nome) THEN Responde(d, r, 400)
           ELSE IF CategoriaFindUnique(d, r.nome.s) # 0 THEN Termina(d, r, 400)
           ELSE Segue(d, r, "create")
      [] r.pc = "create" ->
           IF ~NomeLivre(d, r.nome.s, 0) THEN Responde(d, r, 500)
           ELSE Termina(CategoriaCreate(d, r.nome.s), r, 200)

\* categorias/route.ts:135-172.  findUnique rejects a name that is
\* undefined; Number(id) is NaN for an id that is no number, which differs
\* from every id and which update rejects
CategoriaPUT(d, r) ==
    CASE r.pc = "inicio" ->
           IF r.id.t = "ausente" THEN Responde(d, r, 400)
           ELSE IF r.nome.t # "string" THEN Responde(d, r, 500)
           ELSE IF /\ CategoriaFindUnique(d, r.nome.s) # 0
                   /\ (r.id.t = "texto" \/ CategoriaFindUnique(d, r.nome.s) # r.id.n)
                THEN Termina(d, r, 400)
           ELSE Segue(d, r, "update")
      [] r.pc = "update" ->
           IF r.id.t = "texto" \/ r.id.n \notin d.categorias THEN Responde(d, r, 500)
           ELSE IF ~NomeLivre(d, r.nome.s, r.id.n) THEN Responde(d, r, 500)
           ELSE Termina(CategoriaUpdate(d, r.id.n, r.nome.s), r, 200)

PassoCat(d, r) ==
    CASE r.op = "POST" -> CategoriaPOST(d, r)
      [] r.op = "PUT" -> CategoriaPUT(d, r)

\* a request to /api/categorias before its first step
NovoReqCat(op, id, nome) ==
    [op |-> op, id |-> id, nome |-> nome, pc |-> "inicio", status |-> 0,
     chamadas |-> 0, falha |-> 0]

SemReqCat == [NovoReqCat("", IdAusente, JsUndef) EXCEPT !.pc = "fim"]

\* the names of the requests: two that exist and one that does not
Nomes == {"alimentacao", "lazer", "saude"}

\* creates with each name and with none; renames of the two categories and
\* of one that does not exist to each name, and renames with no id, an id
\* that is no number, or no name
PedidosCat ==
    {NovoReqCat("POST", IdAusente, n) : n \in {JsStr(x) : x \in Nomes} \cup {JsUndef}}
    \cup {NovoReqCat("PUT", IdNumero(i), JsStr(n)) :
             i \in CategoriasIniciais \cup {CategoriaAusente}, n \in Nomes}
    \cup {NovoReqCat("PUT", i, JsStr("saude")) : i \in {IdAusente, IdTexto}}
    \cup {NovoReqCat("PUT", IdNumero(1), JsUndef)}

InitCat ==
    /\ versao = 3
    /\ saldo0 = SaldosIniciais
    /\ db = BancoVazio(saldo0)
    /\ ultimo = [r |-> SemReq, antes |-> db]
    /\ nreq = 0
    /\ cenario = 0
    /\ apagada = NadaApagado
    /\ reqs = [c \in Clientes |-> SemReqCat]

\* client c sends a request to /api/categorias
IniciaCat(c) ==
    /\ reqs[c].pc = "fim"
    /\ nreq < MaxCat
    /\ \E q \in PedidosCat : reqs' = [reqs EXCEPT ![c] = q]
    /\ nreq' = nreq + 1
    /\ UNCHANGED <<versao, db, saldo0, ultimo, cenario, apagada>>

\* the next awaited call of the request of client c returns
AvancaCat(c) ==
    /\ reqs[c].pc # "fim"
    /\ LET p == PassoCat(db, reqs[c]) IN
         /\ db' = p.db
         /\ reqs' = [reqs EXCEPT ![c] = p.r]
    /\ UNCHANGED <<versao, saldo0, ultimo, nreq, cenario, apagada>>

NextCat == \E c \in Clientes : IniciaCat(c) \/ AvancaCat(c)

SpecCat == InitCat /\ [][NextCat]_vars

----------------------------------------------------------------------------
\* SpecLinks: two clients; creates and updates with a categorias array run
\* while categories and transactions are deleted.

\* requests started in one behaviour of SpecLinks
MaxLinks == 2

\* prisma.categoriaDeTransacao.delete accepts the call: the row exists and
\* no row of transacao_para_categoria refers to it
CategoriaDeleteAceita(d, id) ==
    /\ id \in d.categorias
    /\ \A l \in d.links : l[2] # id

\* prisma.categoriaDeTransacao.delete({ where: { id } })
CategoriaDelete(d, id) ==
    [d EXCEPT !.categorias = @ \ {id},
              !.nomes = [c \in DOMAIN @ \ {id} |-> @[c]]]

\* categorias/route.ts:196-222.  Number(id) is NaN for an id that is no
\* number, which delete rejects
CategoriaDELETE(d, r) ==
    IF r.id.t = "ausente" THEN Responde(d, r, 400)
    ELSE IF r.id.t = "texto" \/ ~CategoriaDeleteAceita(d, r.id.n) THEN Responde(d, r, 500)
    ELSE Termina(CategoriaDelete(d, r.id.n), r, 200)

\* creates and updates with a categorias array, the delete of transaction
\* 1, and deletes of the categories, of one that does not exist and with
\* no id
PedidosLinks ==
    {[op |-> "POST", p |-> Pedido(IdAusente, DadosComLista("ENTRADA", l), 0)] :
        l \in {<<1>>, <<1, 2>>}}
    \cup {[op |-> "PUT", p |-> Pedido(IdNumero(1), DadosUpdateComLista("ENTRADA", l), 0)] :
             l \in {<< >>, <<2>>}}
    \cup {[op |-> "DELETE", p |-> Pedido(IdNumero(1), DadosSimples(0, 0, ""), 0)]}
    \cup {[op |-> "CATDELETE", p |-> Pedido(id, DadosSimples(0, 0, ""), 0)] :
             id \in {IdNumero(c) : c \in CategoriasIniciais \cup {CategoriaAusente}}
                   \cup {IdAusente}}

\* the versions whose handlers write link rows, on an empty database or on
\* one with a transaction
InitLinks ==
    /\ versao \in {2, 3}
    /\ saldo0 = SaldosIniciais
    /\ db \in {BancoVazio(saldo0), BancoComUma}
    /\ ultimo = [r |-> SemReq, antes |-> db]
    /\ nreq = 0
    /\ cenario = 0
    /\ apagada = NadaApagado
    /\ reqs = [c \in Clientes |-> SemReq]

\* client c sends a request
IniciaLinks(c) ==
    /\ reqs[c].pc = "fim"
    /\ nreq < MaxLinks
    /\ \E q \in PedidosLinks :
          reqs' = [reqs EXCEPT ![c] = NovoReq(q.op, versao, q.p.id, q.p.dados, q.p.falha)]
    /\ nreq' = nreq + 1
    /\ UNCHANGED <<versao, db, saldo0, ultimo, cenario, apagada>>

\* the next awaited call of the request of client c returns
AvancaLinks(c) ==
    /\ reqs[c].pc # "fim"
    /\ ~Bloqueada(c)
    /\ LET p == IF reqs[c].op = "CATDELETE" THEN CategoriaDELETE(db, reqs[c])
                ELSE Passo(db, reqs[c])
       IN /\ db' = p.db
          /\ reqs' = [reqs EXCEPT ![c] = p.r]
    /\ UNCHANGED <<versao, saldo0, ultimo, nreq, cenario, apagada>>

NextLinks == \E c \in Clientes : IniciaLinks(c) \/ AvancaLinks(c)

SpecLinks == InitLinks /\ [][NextLinks]_vars

----------------------------------------------------------------------------
\* Properties.  In Spec, SpecVersoes and SpecFalhas ultimo.r is the request
\* served last and ultimo.antes the database it found.

\* +valor for ENTRADA, -valor for SAIDA
Sinal(tipo, valor) == IF tipo = "ENTRADA" THEN valor ELSE 0 - valor

\* the sum of the signed amounts of a set of rows
RECURSIVE SomaSinais(_)
SomaSinais(ts) ==
    IF ts = {} THEN 0
    ELSE LET t == CHOOSE x \in ts : TRUE
         IN Sinal(t.tipoDeTransacao, t.valor) + SomaSinais(ts \ {t})

\* the rows of account c
DaConta(d, c) == {t \in d.transacoes : t.contaId = c}

\* every stored amount, before and after the last request, is positive
ValoresPositivos ==
    \A t \in db.transacoes \cup ultimo.antes.transacoes : t.valor > 0

\* the last request was a create that passed validation
UltimoPostValido ==
    /\ ultimo.r.op = "POST"
    /\ validarDadosTransacao(ultimo.r.dados, FALSE)

\* both clients sent POST SAIDA 600 (part_002) on account 1, whose balance
\* was 1000, and both were answered
DuasSaidas ==
    /\ versao = 3
    /\ ultimo.antes = BancoVazio(SaldosIniciais)
    /\ \A c \in Clientes :
          /\ reqs[c].op = "POST"
          /\ reqs[c].dados = DadosSimples(1, 600, "SAIDA")
          /\ reqs[c].pc = "fim"

\* C1: two concurrent SAIDA creates of 600 on an account with balance 1000
\* end with one accepted, one rejected and a balance of 400
C1_UmaSaidaAceita ==
    DuasSaidas =>
        /\ {reqs[c].status : c \in Clientes} = {200, 400}
        /\ db.saldo[1] = 400

\* C2: a create answered with 200 changed the balance of its account by
\* +valor (ENTRADA) or -valor (SAIDA)
C2_PostAjustaSaldo ==
    (UltimoPostValido /\ ultimo.r.status = 200 /\ ValoresPositivos) =>
        LET d == ultimo.r.dados IN
        db.saldo[d.contaId.n] =
            ultimo.antes.saldo[d.contaId.n] + Sinal(d.tipoDeTransacao.s, d.valor.n)

\* the last request was a SAIDA create on an existing account whose amount
\* exceeds the balance the check read
SaidaSemSaldo ==
    /\ UltimoPostValido
    /\ ultimo.r.dados.tipoDeTransacao.s = "SAIDA"
    /\ ultimo.r.dados.contaId.n \in Contas
    /\ ultimo.antes.saldo[ultimo.r.dados.contaId.n] - ultimo.r.dados.valor.n < 0

\* C3: in the handlers with a balance check (versions 2 and 3) a SAIDA
\* create whose amount exceeds the balance is answered with 400 and leaves
\* balances, transactions and links as they were
C3_SaidaSemSaldoRejeitada ==
    (versao \in {2, 3} /\ SaidaSemSaldo) =>
        /\ ultimo.r.status = 400
        /\ db = ultimo.antes

C3_Witness ==
    /\ versao \in {2, 3} /\ SaidaSemSaldo
    /\ ultimo.r.dados.valor.n = 1500
    /\ ultimo.antes.saldo[1] = 1000

\* C4: the balance of every account is its initial balance plus the signed
\* amounts of the rows stored for it (after requests with positive amounts
\* that were answered with 200, 400 or 404)
C4_SaldoSomaTransacoes ==
    (ValoresPositivos /\ ultimo.r.status # 500) =>
        \A c \in Contas : db.saldo[c] = saldo0[c] + SomaSinais(DaConta(db, c))

\* the row the last request (a create or an update answered with 200) left
LinhaDeixada ==
    TransacaoFindUnique(db, IF ultimo.r.op = "POST" THEN ultimo.r.novoId
                            ELSE ultimo.r.id.n)

\* C5: after a create or update answered with 200 that leaves a SAIDA row,
\* the balance of the account of the row is not negative
C5_SaldoNaoNegativo ==
    (/\ versao \in {2, 3}
     /\ ultimo.r.op \in {"POST", "PUT"}
     /\ ultimo.r.status = 200
     /\ LinhaDeixada.tipoDeTransacao = "SAIDA"
     /\ ValoresPositivos
     /\ \A c \in Contas : ultimo.antes.saldo[c] >= 0)
        => db.saldo[LinhaDeixada.contaId] >= 0

\* C6: a request answered with 500 left no write behind
C6_TudoOuNada ==
    ultimo.r.status = 500 => db = ultimo.antes

\* the row an update or delete found
LinhaAntiga == TransacaoFindUnique(ultimo.antes, ultimo.r.id.n)

\* the new effect the claim C7 names: +amount if the payload kind is
\* ENTRADA, -amount otherwise
EfeitoNovo(dados) ==
    IF dados.tipoDeTransacao = JsStr("ENTRADA") THEN dados.valor.n
    ELSE 0 - dados.valor.n

\* C7: an update answered with 200 (versions 2 and 3) changed the balance
\* of the account of the row by the reversal of the stored row plus the
\* effect of the payload
C7_PutAjustaSaldo ==
    (versao \in {2, 3} /\ ultimo.r.op = "PUT" /\ ultimo.r.status = 200) =>
        db.saldo[LinhaAntiga.contaId] =
            ultimo.antes.saldo[LinhaAntiga.contaId]
              - Sinal(LinhaAntiga.tipoDeTransacao, LinhaAntiga.valor)
              + EfeitoNovo(ultimo.r.dados)

C7_Witness ==
    /\ versao \in {2, 3} /\ ultimo.r.op = "PUT" /\ ultimo.r.status = 200
    /\ LinhaAntiga.tipoDeTransacao = "ENTRADA" /\ LinhaAntiga.valor = 600
    /\ ultimo.r.dados.tipoDeTransacao = JsStr("SAIDA")
    /\ ultimo.r.dados.valor = JsNum(1500)

\* the last request (part_002) updated a row with the amount it already had
\* and no other kind or account
PutMesmoValor ==
    /\ versao = 3
    /\ ultimo.r.op = "PUT" /\ ultimo.r.status = 200
    /\ ultimo.r.dados.valor = JsNum(LinhaAntiga.valor)
    /\ ultimo.r.dados.tipoDeTransacao \in {JsUndef, JsStr(LinhaAntiga.tipoDeTransacao)}
    /\ ultimo.r.dados.contaId = JsUndef

\* C8: an update from amount X to X leaves the balance unchanged
C8_MesmoValorMesmoSaldo ==
    PutMesmoValor => db.saldo = ultimo.antes.saldo

\* the last request deleted a row (versions 2 and 3)
UltimoDelete ==
    /\ versao \in {2, 3}
    /\ ultimo.r.op = "DELETE" /\ ultimo.r.status = 200

\* after a delete: the effect of the row is reversed, the row and its
\* links are gone
DeleteReverte ==
    UltimoDelete =>
        /\ db.saldo[LinhaAntiga.contaId] =
              ultimo.antes.saldo[LinhaAntiga.contaId]
                - Sinal(LinhaAntiga.tipoDeTransacao, LinhaAntiga.valor)
        /\ \A l \in db.links : l[1] # ultimo.r.id.n
        /\ \A t \in db.transacoes : t.id # ultimo.r.id.n

\* C9: a delete (versions 2 and 3) reverses the effect of the row and
\* removes its links, and a create of the same account, kind and amount
\* right after it restores the balance the account had before the delete
C9_DeleteDepoisRecria ==
    /\ DeleteReverte
    /\ (versao \in {2, 3} /\ apagada.recriada) =>
          db.saldo[apagada.t.contaId] = apagada.saldo

\* a SAIDA row with a link was deleted and created again
C9_Witness ==
    /\ versao \in {2, 3}
    /\ apagada.recriada
    /\ apagada.t.tipoDeTransacao = "SAIDA"
    /\ apagada.comLinks
    /\ ultimo.r.op = "POST" /\ ultimo.r.status = 200
    /\ ultimo.antes.links = {}

\* C10: the scenario of spec 8.6 yields 400 and balance 1000, 200 and 1600,
\* 200 and 100, 200 and 1600
C10_Cenario ==
    /\ cenario = 1 => ultimo.r.status = 400 /\ db.saldo[1] = 1000
    /\ cenario = 2 => ultimo.r.status = 200 /\ db.saldo[1] = 1600
    /\ cenario = 3 => ultimo.r.status = 200 /\ db.saldo[1] = 100
    /\ cenario = 4 => ultimo.r.status = 200 /\ db.saldo[1] = 1600

C10_Witness == cenario = 4 /\ ultimo.r.op = "DELETE"

\* the filters of a listing that the row t passes
FiltrosDe(t) ==
    {[tipoDeTransacao |-> k, contaId |-> c] :
        k \in {"", t.tipoDeTransacao}, c \in {IdAusente, IdTexto, IdNumero(t.contaId)}}

\* the last request was a create (versions 2 and 3) with a categorias array
\* of existing ids, and it inserted its row
CriadaComCategorias ==
    /\ versao \in {2, 3}
    /\ ultimo.r.op = "POST"
    /\ ultimo.r.novoId # 0
    /\ ultimo.r.dados.temCategorias
    /\ Range(ultimo.r.dados.categorias) \subseteq ultimo.antes.categorias

\* C11: after a create with a list of existing category ids, every listing
\* whose filters the new row passes returns the row once, with exactly the
\* links (row id, category id) of the ids of the list, in any order of the list
C11_ListaMostraCategorias ==
    CriadaComCategorias =>
        \A f \in FiltrosDe(LinhaDeixada) :
            LET corpo == GET(db, f).corpo
                achadas == {i \in DOMAIN corpo : corpo[i].id = ultimo.r.novoId}
            IN /\ Cardinality(achadas) = 1
               /\ \A i \in achadas :
                     corpo[i].categorias =
                        {<<ultimo.r.novoId, c>> : c \in Range(ultimo.r.dados.categorias)}

\* a create with the list [2, 1] was answered with 200
C11_Witness ==
    /\ CriadaComCategorias
    /\ ultimo.r.status = 200
    /\ ultimo.r.dados.categorias = <<2, 1>>
    /\ Len(GET(db, SemFiltros).corpo) = 1

\* the links of the transaction id in the database d
LinksDe(d, id) == {l \in d.links : l[1] = id}

\* the last request was an update (versions 2 and 3) with a categorias
\* array that was answered with 200
PutComCategorias ==
    /\ versao \in {2, 3}
    /\ ultimo.r.op = "PUT" /\ ultimo.r.status = 200
    /\ ultimo.r.dados.temCategorias

\* C12: after an update with a categorias array C that was answered with
\* 200, the links of the transaction are exactly those of the ids of C
C12_PutSubstituiCategorias ==
    PutComCategorias =>
        LinksDe(db, ultimo.r.id.n) =
            {<<ultimo.r.id.n, c>> : c \in Range(ultimo.r.dados.categorias)}

\* the payload lacks a numeric account reference or a numeric amount, has a
\* kind outside {ENTRADA, SAIDA}, a date that does not parse, or a missing
\* or empty description
CampoInvalido(dados) ==
    \/ dados.contaId.t # "number"
    \/ dados.valor.t # "number"
    \/ ~(dados.tipoDeTransacao.t = "string" /\ dados.tipoDeTransacao.s \in Tipos)
    \/ ~DataValida(dados.dataTransacao)
    \/ ~(dados.descricao.t = "string" /\ dados.descricao.s # "")

\* C13: a create whose payload has an invalid field is answered with 400
\* and writes nothing
C13_CampoInvalidoRejeitado ==
    (ultimo.r.op = "POST" /\ CampoInvalido(ultimo.r.dados)) =>
        /\ ultimo.r.status = 400
        /\ db = ultimo.antes

\* C14: every stored transaction has a kind of {ENTRADA, SAIDA} and an
\* amount greater than 0
C14_TipoEValorPositivo ==
    \A t \in db.transacoes : t.tipoDeTransacao \in Tipos /\ t.valor > 0

\* the last request was a create that names an account that does not exist
ContaNaoEncontrada ==
    /\ ultimo.r.op = "POST"
    /\ ultimo.r.dados.contaId.t = "number"
    /\ ultimo.r.dados.contaId.n \notin DOMAIN ultimo.antes.saldo

\* C15: a create that names an account that does not exist is answered
\* with 400 and writes no row, no link and no balance
C15_ContaAusenteRejeitada ==
    ContaNaoEncontrada => ultimo.r.status = 400 /\ db = ultimo.antes

\* such a create was served by a handler that found rows and links stored
C15_Witness ==
    /\ ContaNaoEncontrada
    /\ ultimo.r.dados.contaId.n = ContaAusente
    /\ ultimo.antes.links # {}
    /\ versao \in {2, 3}

\* the last request was a create (versions 2 and 3) with a categorias array
\* that names a category that does not exist
CategoriaNaoEncontrada ==
    /\ versao \in {2, 3}
    /\ ultimo.r.op = "POST"
    /\ ultimo.r.dados.temCategorias
    /\ ~(Range(ultimo.r.dados.categorias) \subseteq ultimo.antes.categorias)

\* C16: a create with a category id that does not exist is answered with
\* 400 and writes nothing
C16_CategoriaAusenteRejeitada ==
    CategoriaNaoEncontrada => ultimo.r.status = 400 /\ db = ultimo.antes

\* the last request was an update or a delete whose id is a number that no
\* stored transaction has
IdNaoEncontrado ==
    /\ ultimo.r.op \in {"PUT", "DELETE"}
    /\ ultimo.r.id.t = "numero"
    /\ \A t \in ultimo.antes.transacoes : t.id # ultimo.r.id.n

\* the last request was a delete with no id or an id that is no number
DeleteSemId == ultimo.r.op = "DELETE" /\ ultimo.r.id.t # "numero"

\* C17 as stated: an update or delete whose id names no stored transaction
\* is answered with 404, a delete without a numeric id with 400, and
\* nothing is written
C17_Original ==
    /\ IdNaoEncontrado => ultimo.r.status = 404 /\ db = ultimo.antes
    /\ DeleteSemId => ultimo.r.status = 400 /\ db = ultimo.antes

\* C17: a delete, or an update whose payload passes the update validation,
\* whose id names no stored transaction is answered with 404, a delete
\* without a numeric id with 400, and accounts, transactions, links and
\* audit rows are unchanged
C17_IdNaoEncontrado404 ==
    /\ (IdNaoEncontrado /\ (ultimo.r.op = "PUT" => Validar(ultimo.r, TRUE))) =>
          ultimo.r.status = 404 /\ db = ultimo.antes
    /\ DeleteSemId => ultimo.r.status = 400 /\ db = ultimo.antes

\* an update with a valid payload named a transaction that is not stored
\* while another one, with its link and audit row, is
C17_Witness ==
    /\ IdNaoEncontrado
    /\ ultimo.r.op = "PUT" /\ Validar(ultimo.r, TRUE)
    /\ ultimo.antes.transacoes # {}
    /\ ultimo.antes.links # {}
    /\ Len(ultimo.antes.logs) > 0

\* the ids of the stored transactions
Ids(d) == {t.id : t \in d.transacoes}

\* the transactions the last request removed
Removidas == Ids(ultimo.antes) \ Ids(db)

\* the audit rows of the sequence logs whose transaction is not in ids
LogsSem(logs, ids) == SelectSeq(logs, LAMBDA l : l.transacaoId \notin ids)

\* the sequence a is the beginning of the sequence b
Prefixo(a, b) == Len(a) <= Len(b) /\ SubSeq(b, 1, Len(a)) = a

\* the transaction a request answered with 200 wrote, and the operation
EscritaPor(r) ==
    [transacaoId |-> IF r.op = "POST" THEN r.novoId ELSE r.id.n,
     operacao |-> CASE r.op = "POST" -> "INSERT"
                    [] r.op = "PUT" -> "UPDATE"
                    [] OTHER -> "DELETE"]

\* C18: a create, update or delete answered with 200 appended exactly one
\* audit row, with its operation; no request changed or removed an audit
\* row other than the rows of a transaction it deleted
C18_UmLogPorEscrita ==
    /\ \/ Prefixo(ultimo.antes.logs, db.logs)
       \/ Prefixo(LogsSem(ultimo.antes.logs, Removidas), db.logs)
    /\ ultimo.r.status = 200 =>
          db.logs = Append(LogsSem(ultimo.antes.logs, Removidas), EscritaPor(ultimo.r))
                    \/ db.logs = Append(ultimo.antes.logs, EscritaPor(ultimo.r))

\* C19: no two categories have the same name
C19_NomesUnicos ==
    \A a, b \in db.categorias : db.nomes[a] = db.nomes[b] => a = b

\* both clients asked for the name "saude", by a create or a rename, and
\* were answered, one of them with 200
C19_Witness ==
    /\ \A c \in Clientes :
          /\ reqs[c].op \in {"POST", "PUT"}
          /\ reqs[c].nome = JsStr("saude")
          /\ reqs[c].pc = "fim"
    /\ \E c \in Clientes : reqs[c].status = 200
    /\ \E c \in Clientes : reqs[c].op = "POST"
    /\ \E c \in Clientes : reqs[c].status # 200 /\ reqs[c].chamadas > 0

\* a create with a name, or a rename of a category that exists to a name
PedidoBemFormado(r) ==
    \/ r.op = "POST" /\ Truthy(r.nome)
    \/ /\ r.op = "PUT"
       /\ r.id.t = "numero" /\ r.id.n \in CategoriasIniciais
       /\ r.nome.t = "string"

\* the name of the request is that of a category other than its own
NomeDeOutra(d, r) ==
    \E c \in d.categorias :
        /\ d.nomes[c] = r.nome.s
        /\ r.op = "PUT" => c # r.id.n

\* C20: a create or a rename whose name another category holds is answered
\* 400 and leaves the catalog as it was, also when the other request for the
\* name ran at the same time: no such request is answered 500
C20_NomeDuplicado400 ==
    /\ \A c \in Clientes :
          (reqs[c].pc = "fim" /\ PedidoBemFormado(reqs[c]) /\ reqs[c].status # 200)
              => reqs[c].status = 400
    /\ \A c \in Clientes :
          (/\ nreq = 1
           /\ reqs[c].pc = "fim"
           /\ PedidoBemFormado(reqs[c])
           /\ NomeDeOutra(BancoVazio(saldo0), reqs[c]))
              => reqs[c].status = 400 /\ db = BancoVazio(saldo0)

\* a rename whose id names no category (none is ever stored under
\* CategoriaAusente)
RenomeiaAusente(r) ==
    r.op = "PUT" /\ r.pc = "fim" /\ r.id = IdNumero(CategoriaAusente)

\* C21: a rename whose id names no stored category is answered 404 and
\* changes nothing
C21_RenomeiaAusente404 ==
    \A c \in Clientes :
        RenomeiaAusente(reqs[c]) =>
            /\ reqs[c].status = 404
            /\ nreq = 1 => db = BancoVazio(saldo0)

\* C22: a link row that is written refers to a transaction and to a
\* category that are stored when it is written, whatever deletes of
\* categories and transactions run at the same time
C22_LinkReferenciaExistentes ==
    [][\A l \in db'.links \ db.links :
           /\ l[1] \in Ids(db) /\ l[1] \in Ids(db')
           /\ l[2] \in db.categorias /\ l[2] \in db'.categorias]_vars

\* a create or update has just written its link rows while the request of
\* the other client, a delete of a category or of a transaction, was in
\* flight or had removed its row
C22_Witness ==
    \E c, e \in Clientes :
        /\ c # e
        /\ reqs[c].op \in {"POST", "PUT"}
        /\ reqs[c].pc = "ajustar"
        /\ \E l \in db.links :
              l[1] = (IF reqs[c].op = "POST" THEN reqs[c].novoId ELSE reqs[c].id.n)
        /\ \/ reqs[e].op = "CATDELETE" /\ reqs[e].status = 200
           \/ reqs[e].op = "DELETE" /\ reqs[e].pc \notin {"inicio", "fim"}

\* the last request was an update (versions 2 and 3) of a stored row whose
\* payload passes validation and has the kind SAIDA: it reached the balance
\* check
PutSaida ==
    /\ versao \in {2, 3}
    /\ ultimo.r.op = "PUT"
    /\ ultimo.r.id.t = "numero"
    /\ LinhaAntiga # SemTransacao
    /\ validarDadosTransacao(ultimo.r.dados, TRUE)
    /\ ultimo.r.dados.tipoDeTransacao = JsStr("SAIDA")

\* current_balance + newEffect < 0 with newEffect = -payload amount; no
\* comparison with NaN (the payload has no amount) is true
SaldoMaisEfeitoNegativo ==
    /\ ultimo.r.dados.valor.t = "number"
    /\ ultimo.antes.saldo[LinhaAntiga.contaId] - ultimo.r.dados.valor.n < 0

PutSemTipo ==
    /\ versao \in {2, 3}
    /\ ultimo.r.op = "PUT"
    /\ ultimo.r.id.t = "numero"
    /\ LinhaAntiga # SemTransacao
    /\ ultimo.r.dados.tipoDeTransacao = JsUndef
    /\ \/ ultimo.r.dados.valor # JsUndef
       \/ ultimo.r.dados.dataTransacao # JsUndef
       \/ ultimo.r.dados.descricao # JsUndef

\* the balance of account c is its initial balance plus the signed amounts
\* of its rows
SaldoConfere(d, c) == d.saldo[c] = saldo0[c] + SomaSinais(DaConta(d, c))

\* C24: an update with an amount, a date or a description passes
\* validation; when it names no kind the row keeps its kind and the balance
\* of the account stays the initial balance plus the signed amounts of its
\* rows
C24_PutSemTipoMantemSaldo ==
    PutSemTipo =>
        /\ ultimo.r.status # 400
        /\ ultimo.r.status = 200 =>
              /\ LinhaDeixada.tipoDeTransacao = LinhaAntiga.tipoDeTransacao
              /\ SaldoConfere(ultimo.antes, LinhaAntiga.contaId)
                    => SaldoConfere(db, LinhaAntiga.contaId)

\* the last request was a delete of a stored row served by the handler that
\* opens a $transaction (route.ts:912-972)
DeleteEmTransacao ==
    /\ versao = 2
    /\ ultimo.r.op = "DELETE"
    /\ ultimo.r.id.t = "numero"
    /\ LinhaAntiga # SemTransacao

\* C25: the delete in a $transaction removes the links, removes the row and
\* adjusts the balance, or does none of the three, also when the adjustment
\* or the commit is rejected
C25_DeleteAtomico ==
    DeleteEmTransacao =>
        \/ /\ db.links = ultimo.antes.links
           /\ db.transacoes = ultimo.antes.transacoes
           /\ db.saldo = ultimo.antes.saldo
        \/ /\ LinksDe(db, ultimo.r.id.n) = {}
           /\ db.transacoes = ultimo.antes.transacoes \ {LinhaAntiga}
           /\ db.saldo[LinhaAntiga.contaId] =
                 ultimo.antes.saldo[LinhaAntiga.contaId]
                   - Sinal(LinhaAntiga.tipoDeTransacao, LinhaAntiga.valor)

\* SpecConc: the rows inserted since the requests began
LinhasNovas == db.transacoes \ ultimo.antes.transacoes

\* the sum of the amounts of a set of rows
RECURSIVE SomaValores(_)
SomaValores(ts) ==
    IF ts = {} THEN 0
    ELSE LET t == CHOOSE x \in ts : TRUE IN t.valor + SomaValores(ts \ {t})

\* SpecConc: every request is answered, and the only writes since the
\* requests began are the inserts of ENTRADA rows of account 1 (rejected
\* requests write nothing)
SoEntradas ==
    /\ versao \in {2, 3}
    /\ \A c \in Clientes : reqs[c].pc = "fim"
    /\ Prefixo(ultimo.antes.logs, db.logs)
    /\ \A i \in (Len(ultimo.antes.logs) + 1)..Len(db.logs) : db.logs[i].operacao = "INSERT"
    /\ \A t \in LinhasNovas : t.tipoDeTransacao = "ENTRADA" /\ t.contaId = 1

\* C26: after ENTRADA creates on one account, run in any interleaving, the
\* balance is the balance before them plus the amounts of the creates that
\* were accepted
C26_EntradasSomam ==
    SoEntradas =>
        db.saldo[1] = ultimo.antes.saldo[1] + SomaValores(LinhasNovas)

\* both clients created an ENTRADA row and both were answered 200
C26_Witness ==
    /\ SoEntradas
    /\ \A c \in Clientes :
          /\ reqs[c].op = "POST" /\ reqs[c].status = 200
          /\ reqs[c].dados.tipoDeTransacao = JsStr("ENTRADA")
    /\ Cardinality(LinhasNovas) = 2
    /\ db.saldo[1] = ultimo.antes.saldo[1] + 1200

\* SpecConc: the two clients sent one update each for transaction 1 of
\* BancoComUma, no other request was sent, and both were answered 200
DoisPuts ==
    /\ versao \in {2, 3}
    /\ ultimo.antes = BancoComUma
    /\ nreq = 2
    /\ \A c \in Clientes :
          /\ reqs[c].op = "PUT" /\ reqs[c].id = IdNumero(1)
          /\ reqs[c].pc = "fim" /\ reqs[c].status = 200

\* the signed amount of a row
SinalDe(t) == Sinal(t.tipoDeTransacao, t.valor)

\* C27: after two concurrent updates of one transaction that both answered
\* 200, the balance is the balance before them plus the signed amount that
\* is stored at the end minus the signed amount that was stored at first
C27_DoisPutsUmaReversao ==
    DoisPuts =>
        db.saldo[1] = ultimo.antes.saldo[1]
                        + SinalDe(TransacaoFindUnique(db, 1))
                        - SinalDe(TransacaoFindUnique(ultimo.antes, 1))

\* SpecConc: the two clients sent one delete each for the stored
\* transaction 1, no other request was sent, and both were answered
DoisDeletes ==
    /\ TransacaoFindUnique(ultimo.antes, 1) # SemTransacao
    /\ nreq = 2
    /\ \A c \in Clientes :
          /\ reqs[c].op = "DELETE" /\ reqs[c].id = IdNumero(1)
          /\ reqs[c].pc = "fim"

\* C28: after two concurrent deletes of one transaction the balance has
\* changed by one reversal of its effect, and at most one of the two was
\* answered 200
C28_DoisDeletesUmaReversao ==
    DoisDeletes =>
        /\ db.saldo[1] = ultimo.antes.saldo[1]
                           - SinalDe(TransacaoFindUnique(ultimo.antes, 1))
        /\ \E c \in Clientes : reqs[c].status # 200

\* both deletes read the row before either removed it: one was answered
\* 200, the other found the row gone when it came to delete it
C28_Witness ==
    /\ DoisDeletes
    /\ \A c \in Clientes : reqs[c].antiga = TransacaoFindUnique(ultimo.antes, 1)
    /\ {reqs[c].status : c \in Clientes} = {200, 500}
    /\ db.transacoes = {}

\* the account of the transaction of the last request: the contaId of a
\* create payload, the account of the stored row of an update or delete
\* (0: none)
ContaDoPedido ==
    IF ultimo.r.op = "POST"
    THEN (IF ultimo.r.dados.contaId.t = "number" THEN ultimo.r.dados.contaId.n ELSE 0)
    ELSE LinhaAntiga.contaId

\* the balances of the accounts other than that of the last request are as
\* they were
OutrasContasIguais ==
    \A c \in Contas \ {ContaDoPedido} : db.saldo[c] = ultimo.antes.saldo[c]

\* C29: a create, update or delete changes the balance of no account but
\* that of its transaction, and an update leaves the row in its account
C29_SoAContaDaTransacao ==
    /\ OutrasContasIguais
    /\ (ultimo.r.op = "PUT" /\ ultimo.r.id.t = "numero" /\ LinhaAntiga # SemTransacao) =>
          TransacaoFindUnique(db, ultimo.r.id.n).contaId = LinhaAntiga.contaId

\* C30: a request answered 400 or 404 has written nothing: every check that
\* ends a request with one of them precedes the first write of the handler
C30_RejeitadaNadaEscreve ==
    ultimo.r.status \in {400, 404} => db = ultimo.antes

\* a SAIDA create was rejected by the balance check, after the lookup of the
\* account, on a database that holds a transaction
C30_Witness ==
    /\ ultimo.r.op = "POST"
    /\ ultimo.r.status = 400
    /\ ultimo.r.chamadas = 2
    /\ ultimo.r.dados.tipoDeTransacao = JsStr("SAIDA")
    /\ ultimo.antes.transacoes # {}

====
